---- MODULE Spec2Model ----
(***************************************************************************)
(* The orchestration engine of the MCP agent (src/agent/agent.py) together *)
(* with the MCP client it drives (src/client_side/client.py): one run of   *)
(* BedrockMCPAgent.process_request through the LangGraph workflow          *)
(* analyze_request -> execute_tools -> {execute_tools | generate_response  *)
(* | error_recovery} -> generate_response -> END.                          *)
(*                                                                         *)
(* The completion service (self.llm) and the tool backend behind the MCP   *)
(* client are external: every call to them draws its outcome from a small  *)
(* set.  Texts are abstracted to tags, a tool's parameters to the position *)
(* of its spec in the plan (an opaque value that identifies the spec).     *)
(***************************************************************************)
EXTENDS Integers, Sequences, FiniteSets, TLC

VARIABLES
    pc,                 \* position of the run in process_request / the graph
    messages,           \* AgentState["messages"]: conversation, as message tags
    current_task,       \* AgentState["current_task"]
    selected_tools,     \* AgentState["selected_tools"]: the plan
    tool_results,       \* AgentState["tool_results"]: the outcomes
    step_count,         \* AgentState["step_count"]
    max_steps,          \* AgentState["max_steps"] = self.max_steps
    final_response,     \* AgentState["final_response"]
    i,                  \* _execute_tools_node: loop index (1-based), 0 outside the loop
    execution_results,  \* _execute_tools_node: local list execution_results
    connected,          \* MCPClient._connected
    available_tools,    \* MCPClient.available_tools (the names it holds)
    invoked,            \* history: per Execute pass, the call_tool calls made,
                        \* whether the outcome built for each was a success,
                        \* whether the call ran into one of the two time limits
                        \* and whether asyncio.sleep(0.5) followed the outcome
    llm_calls,          \* history: the calls of self.llm.ainvoke, in order: the
                        \* node that called and what the service did
    raised,             \* the place whose exception escaped the workflow, or "none"
    ret,                \* the record process_request returned (read when pc = "returned")
    other_pc,           \* position of a second process_request call on the same
                        \* agent, as far as it touches the shared MCPClient
    files,              \* the server's data directory: what each path holds
    fs_trace,           \* history: the _filesystem_operation calls made, each
                        \* with its input and what it returned or raised
    response_text,      \* _parse_json_response: its argument, once there is one
    parsed,             \* _parse_json_response: what it returned, once it did
    discovery,          \* per caller of the MCPClient: where its discover_tools
                        \* call stands, the tools_response it got and how many
                        \* of its tools the loop has stored
    refreshed,          \* history: the tools_response of the latest refresh
    observed            \* history: what the latest reader of the directory saw

vars == <<pc, messages, current_task, selected_tools, tool_results, step_count,
          max_steps, final_response, i, execution_results, connected,
          available_tools, invoked, llm_calls, raised, ret, other_pc, files,
          fs_trace, response_text, parsed, discovery, refreshed, observed>>

\* the filesystem tool's side
fs_vars == <<files, fs_trace>>

\* the plan parser's side
parse_vars == <<response_text, parsed>>

\* the tool directory's side
dir_vars == <<discovery, refreshed, observed>>

state_vars == <<messages, current_task, selected_tools, tool_results, step_count,
                final_response>>

-----------------------------------------------------------------------------
(* Bounds of the model.                                                    *)

\* longest plan the completion service returns
MaxPlan == 2

\* largest step budget an agent is constructed with
MaxBudget == 3

-----------------------------------------------------------------------------
(* Values.                                                                 *)

\* Python's None, where a text may also be None
None == "None"

\* tool names a plan may carry; only the first is exposed by the server
ToolNames == {"filesystem", "bogus"}

\* the tools the server lists when discovery succeeds
Discovered == {"filesystem"}

\* "sequence" values a spec may carry (the key may also be absent)
SeqValues == {1, 2}

\* dict.get(key, default)
Get(d, key, default) == IF key \in DOMAIN d THEN d[key] ELSE default

\* A text, as the tag of its template; a recovery report also carries the
\* bullet lists it enumerates.
Text(kind) == [kind |-> kind, succ |-> <<>>, fail |-> <<>>]

\* The shapes of a planned invocation as the completion service may emit
\* them: with or without "sequence", critical or not, and possibly without
\* the "tool" key or with a "sequence" that is null (nothing validates the
\* specs).  A null "sequence" is kept under a field of its own,
\* sequence_null, so that the field sequence always holds a number.
SpecShapes ==
    {[tool |-> t, critical |-> c] : t \in ToolNames, c \in BOOLEAN}
    \cup {[tool |-> t, critical |-> c, sequence |-> s] :
            t \in ToolNames, c \in BOOLEAN, s \in SeqValues}
    \cup {[critical |-> FALSE]}
    \cup {[critical |-> FALSE, sequence |-> s] : s \in SeqValues}
    \cup {[tool |-> "filesystem", critical |-> FALSE, sequence_null |-> TRUE]}

\* spec shape sh at plan position k: the parameters identify the spec
WithParameters(sh, k) ==
    [x \in DOMAIN sh \cup {"parameters"} |-> IF x = "parameters" THEN k ELSE sh[x]]

\* the plans the completion service may return
Plans ==
    UNION {{[k \in 1..n |-> WithParameters(f[k], k)] : f \in [1..n -> SpecShapes]} :
            n \in 0..MaxPlan}

-----------------------------------------------------------------------------
(* Pure helpers.                                                           *)

\* the sort key of _execute_tools_node: x.get("sequence", 0), where it is a
\* number
SequenceKey(x) == Get(x, "sequence", 0)

\* x.get("sequence", 0) is None
NullKey(x) == "sequence_null" \in DOMAIN x

\* sorted() raises TypeError: it has two keys to compare and one of them is
\* None, which Python orders against nothing, not even None
SortRaises(plan) ==
    Len(plan) >= 2 /\ \E k \in 1..Len(plan) : NullKey(plan[k])

\* InsertStable with x placed before the elements of equal key: a sort that
\* does not keep the plan order of specs with equal sequence index
InsertBeforeEqual(t, x) ==
    LET k == Cardinality({j \in 1..Len(t) : Get(t[j], "sequence", 0) < Get(x, "sequence", 0)})
    IN  SubSeq(t, 1, k) \o <<x>> \o SubSeq(t, k + 1, Len(t))

\* x placed into the sorted sequence t after every element whose key is not
\* larger: what a stable sort does with the next element of its input
InsertStable(t, x) ==
    LET k == Cardinality({j \in 1..Len(t) : SequenceKey(t[j]) <= SequenceKey(x)})
    IN  SubSeq(t, 1, k) \o <<x>> \o SubSeq(t, k + 1, Len(t))

RECURSIVE SortedPrefix(_, _)
SortedPrefix(s, n) ==
    IF n = 0 THEN <<>> ELSE InsertStable(SortedPrefix(s, n - 1), s[n])

\* sorted(state["selected_tools"], key=lambda x: x.get("sequence", 0))
tools_to_execute(plan) == SortedPrefix(plan, Len(plan))

\* an MCPToolResult
MCPToolResult(tool_name, parameters, result, success, error) ==
    [tool_name |-> tool_name, parameters |-> parameters, result |-> result,
     success |-> success, error |-> error]

\* What a call that reaches the server may do: answer, answer with an error
\* (or fail in transport), exceed the client's own time limit, or not get as
\* far as the call within the agent's time limit.
BackendOutcomes == {"ok", "error", "timeout", "hang"}

\* MCPClient.call_tool never returns: only a call that reaches the server can
\* outlast the agent's asyncio.wait_for
call_tool_hangs(tool_name, b) ==
    connected /\ tool_name \in available_tools /\ b = "hang"

\* The call reaches the server and session.call_tool outlasts the client's
\* own asyncio.wait_for (self.timeout)
call_tool_times_out(tool_name, b) ==
    connected /\ tool_name \in available_tools /\ b = "timeout"

\* MCPClient.call_tool, when it returns
call_tool(tool_name, parameters, b) ==
    IF ~connected
    THEN MCPToolResult(tool_name, parameters, None, FALSE, "Client is not connected")
    ELSE IF tool_name \notin available_tools
    THEN MCPToolResult(tool_name, parameters, None, FALSE, "Tool is not available")
    ELSE IF b = "ok"
    THEN MCPToolResult(tool_name, parameters, "payload", TRUE, None)
    ELSE IF b = "error"
    THEN MCPToolResult(tool_name, parameters, "error payload", FALSE, "backend error")
    ELSE \* asyncio.TimeoutError inside the client: str(e) is the empty text
         MCPToolResult(tool_name, parameters, None, FALSE, "")

\* the timeout_result _execute_tools_node builds on asyncio.TimeoutError
timeout_result(tool_name, parameters) ==
    MCPToolResult(tool_name, parameters, "error payload", FALSE,
                  "Tool execution timed out")

-----------------------------------------------------------------------------
(* The MCP client.                                                         *)

\* How MCPClient.connect may go: discovery succeeds; discovery fails inside
\* discover_tools, which swallows the error; discovery outlasts self.timeout.
ConnectOutcomes == {"ok", "discover_failed", "timeout"}

\* How a discover_tools call made by get_available_tools may go
DiscoverOutcomes == {"ok", "discover_failed"}

\* MCPClient.discover_tools: the directory after the call.  On success the
\* directory is replaced by what the server lists; a failure is swallowed
\* and leaves it as it was.
discover_tools(directory, d) == IF d = "ok" THEN Discovered ELSE directory

\* MCPClient.connect: what it returns and the client's fields after it.
\* Only a timeout (or a failure before discovery) makes it return False: a
\* discovery that failed returns normally, so connect sets _connected.
connect(c) ==
    IF c = "timeout"
    THEN [returns |-> FALSE, connected |-> connected,
          available_tools |-> available_tools]
    ELSE [returns |-> TRUE, connected |-> TRUE,
          available_tools |-> discover_tools(available_tools, c)]

\* MCPClient.get_available_tools: the directory after the call (an empty
\* directory is rediscovered first)
get_available_tools(directory, d) ==
    IF directory = {} THEN discover_tools(directory, d) ELSE directory

\* the coroutines that use one MCPClient at a time
Callers == {1, 2}

\* a caller that is not inside discover_tools
Idle == [at |-> "idle", tools |-> <<>>, k |-> 0]

-----------------------------------------------------------------------------
(* The completion service.                                                 *)

\* JSON values a completion text may hold
JsonObject(o) == [type |-> "object", object |-> o]

JsonArray(items) == [type |-> "array", items |-> items]

JsonNumber == [type |-> "number"]

\* words that are no JSON value and hold no brace
NotJson == [type |-> "words"]

\* A completion text: a value as is, a value between sentences of prose, or
\* a value after a ```json marker, with or without the closing fence. What
\* the service returns may also be no str at all.
Completion(form, value) == [form |-> form, value |-> value]

NotAString == [form |-> "not_str"]

\* no completion text yet, nothing parsed yet
NoText == [form |-> "none"]

NotParsed == [called |-> FALSE]

\* what stands for the span of a text that holds no brace
NoBrace == [type |-> "no_brace"]

\* the items of an array that are objects
ObjectItems(items) == {k \in 1..Len(items) : items[k].type = "object"}

\* the span from the first "{" to the last "}" of a text holding the value,
\* NoBrace when the text holds none (lines 107-113): of an array, the span
\* runs from its first object to its last one
BraceSpan(value) ==
    CASE value.type = "object" -> value
      [] value.type = "array" /\ Cardinality(ObjectItems(value.items)) = 1 ->
            value.items[CHOOSE k \in ObjectItems(value.items) : TRUE]
      [] value.type = "array" /\ Cardinality(ObjectItems(value.items)) > 1 ->
            NotJson
      [] OTHER -> NoBrace

\* json_str of _parse_json_response (lines 98-113): what follows the marker,
\* else the brace span, else the whole text
json_str(text) ==
    IF text.form \in {"fenced", "fenced_open"}
    THEN text.value
    ELSE IF BraceSpan(text.value) # NoBrace
         THEN BraceSpan(text.value)
         ELSE IF text.form = "prose" THEN NotJson
              ELSE text.value

\* the dict of the except branch (lines 130-137)
default_plan(error) ==
    [task_analysis |-> "Could not parse analysis response",
     selected_tools |-> <<>>,
     execution_plan |-> "Fallback plan",
     expected_outcome |-> "Basic response",
     error |-> error]

\* lines 123-126: a field the object lacks gets its default
WithDefault(o, key, default) ==
    IF key \in DOMAIN o THEN o
    ELSE [k \in DOMAIN o \cup {key} |-> IF k = key THEN default ELSE o[k]]

\* lines 119-128: only a dict passes; its missing required fields are added
ensure_fields(value) ==
    IF value.type = "object"
    THEN WithDefault(WithDefault(value.object, "selected_tools", <<>>),
                     "task_analysis", "Task analysis not provided")
    ELSE default_plan("Response is not a JSON object")

\* _parse_json_response
parse_json_response(text) ==
    IF text.form = "not_str"
    THEN default_plan("AttributeError")
    ELSE IF json_str(text).type = "words"
         THEN default_plan("JSONDecodeError")
         ELSE ensure_fields(json_str(text))

\* What self.llm.ainvoke may do with the planning prompt: raise, return text
\* that does not parse as a JSON object, or return a JSON object, with or
\* without the fields the planner reads.
AnalysisCompletions ==
    {[kind |-> "raise"],
     [kind |-> "unparsable", content |-> Completion("bare", NotJson)]}
    \cup {[kind |-> "json",
           content |-> Completion("bare", JsonObject([execution_plan |-> "plan"]))]}
    \cup {[kind |-> "json",
           content |-> Completion("bare",
                          JsonObject([task_analysis |-> "task",
                                      selected_tools |-> p]))] :
            p \in Plans}

\* What self.llm.ainvoke may do with a response prompt
ResponseCompletions == {"raise", "text", "empty"}

-----------------------------------------------------------------------------
(* The filesystem tool of the server (server_side/utils/tools_functions).  *)

\* how many _filesystem_operation calls a behaviour makes
MaxOps == 4

\* paths relative to data_path: the data directory itself, a file in it, a
\* subdirectory and a file in the subdirectory
FsPaths == {".", "f", "d", "d/f"}

\* the directories above a path, outermost first
Ancestors(path) ==
    CASE path = "." -> <<>>
      [] path = "f" -> <<".">>
      [] path = "d" -> <<".">>
      [] path = "d/f" -> <<".", "d">>

\* the paths directly inside a path
Children(path) ==
    {q \in FsPaths : Ancestors(q) # <<>> /\ Ancestors(q)[Len(Ancestors(q))] = path}

\* what a path may hold
Absent == [kind |-> "absent"]
Directory == [kind |-> "dir"]
File(content) == [kind |-> "file", content |-> content]

\* the data directory exists and is empty
EmptyDataDir == [q \in FsPaths |-> IF q = "." THEN Directory ELSE Absent]

\* contents a caller may pass: none, the empty text, a text of 5 characters
\* and a text of 4 characters with a CR LF line break in it
Contents == {None, "", "hello", "x CRLF y"}

\* len(content)
ContentSize(content) ==
    CASE content = "hello" -> 5
      [] content = "x CRLF y" -> 4
      [] content = "x LF y" -> 3
      [] OTHER -> 0

\* what Path.read_text returns for the stored text: it opens the file with
\* universal newlines, so CR LF is read back as LF
read_text(stored) == IF stored = "x CRLF y" THEN "x LF y" ELSE stored

\* FileOperationInput
FileOperationInput(operation, path, content) ==
    [operation |-> operation, path |-> path, content |-> content]

\* _filesystem_read_operation
filesystem_read_operation(input_data, fs) ==
    IF fs[input_data.path].kind = "file"
    THEN LET content == read_text(fs[input_data.path].content)
         IN  [result |-> [content |-> content, size |-> ContentSize(content),
                          path |-> input_data.path, sucess |-> TRUE],
              files |-> fs]
    ELSE [result |-> [error |-> "File does not exist.", sucess |-> FALSE],
          files |-> fs]

\* full_path.parent.mkdir(parents=True, exist_ok=True): the directory after
\* it; it raises when something above the path is a file
MkdirRaises(path, fs) ==
    \E k \in 1..Len(Ancestors(path)) : fs[Ancestors(path)[k]].kind = "file"

mkdir_parents(path, fs) ==
    [q \in FsPaths |->
        IF (\E k \in 1..Len(Ancestors(path)) : Ancestors(path)[k] = q)
           /\ fs[q].kind = "absent"
        THEN Directory ELSE fs[q]]

\* _filesystem_write_operation: an empty or missing content is refused;
\* the parents are created; write_text raises on a directory
filesystem_write_operation(input_data, fs) ==
    IF input_data.content \in {None, ""}
    THEN [result |-> [error |-> "Content is required for write operation.",
                      sucess |-> FALSE],
          files |-> fs]
    ELSE IF MkdirRaises(input_data.path, fs)
    THEN [result |-> [raised |-> "FileExistsError"], files |-> fs]
    ELSE IF fs[input_data.path].kind = "dir"
    THEN [result |-> [raised |-> "IsADirectoryError"],
          files |-> mkdir_parents(input_data.path, fs)]
    ELSE [result |-> [message |-> "File written successfully.",
                      size |-> ContentSize(input_data.content),
                      path |-> input_data.path, sucess |-> TRUE],
          files |-> [mkdir_parents(input_data.path, fs)
                        EXCEPT ![input_data.path] = File(input_data.content)]]

\* _filesystem_list_operation
filesystem_list_operation(input_data, fs) ==
    IF fs[input_data.path].kind = "dir"
    THEN LET listed == {[name |-> q, type |-> IF fs[q].kind = "dir"
                                              THEN "directory" ELSE "file"] :
                          q \in {c \in Children(input_data.path) :
                                    fs[c].kind # "absent"}}
         IN  [result |-> [files |-> listed, count |-> Cardinality(listed),
                          sucess |-> TRUE],
              files |-> fs]
    ELSE [result |-> [error |-> "Path is not a directory.", sucess |-> FALSE],
          files |-> fs]

\* _filesystem_delete_operation
filesystem_delete_operation(input_data, fs) ==
    IF fs[input_data.path].kind = "file"
    THEN [result |-> [message |-> "File deleted successfully", sucess |-> TRUE],
          files |-> [fs EXCEPT ![input_data.path] = Absent]]
    ELSE IF fs[input_data.path].kind = "dir"
    THEN IF \A c \in Children(input_data.path) : fs[c].kind = "absent"
         THEN [result |-> [message |-> "Directory deleted successfully",
                           sucess |-> TRUE],
               files |-> [fs EXCEPT ![input_data.path] = Absent]]
         ELSE [result |-> [error |-> "Failed to delete directory", sucess |-> FALSE],
               files |-> fs]
    ELSE [result |-> [error |-> "File or directory does not exist.",
                      sucess |-> FALSE],
          files |-> fs]

\* _filesystem_operation: what it returns (or raises) and the data
\* directory after it
filesystem_operation(input_data, fs) ==
    IF input_data.operation \notin {"read", "write", "list", "delete"}
    THEN [result |-> [error |-> "Invalid file operation"], files |-> fs]
    ELSE IF input_data.operation = "read"
    THEN filesystem_read_operation(input_data, fs)
    ELSE IF input_data.operation = "write"
    THEN filesystem_write_operation(input_data, fs)
    ELSE IF input_data.operation = "list"
    THEN filesystem_list_operation(input_data, fs)
    ELSE filesystem_delete_operation(input_data, fs)

-----------------------------------------------------------------------------
(* Construction and process_request.                                       *)

NoReturn ==
    [success |-> FALSE, final_response |-> Text("none"), messages |-> <<>>,
     tool_results |-> <<>>, steps_taken |-> 0]

\* BedrockMCPAgent.__init__ with some max_steps; MCPClient.__init__
Init ==
    /\ pc = "idle"
    /\ max_steps \in 1..MaxBudget
    /\ messages = <<>>
    /\ current_task = ""
    /\ selected_tools = <<>>
    /\ tool_results = <<>>
    /\ step_count = 0
    /\ final_response = Text("empty")
    /\ i = 0
    /\ execution_results = <<>>
    /\ connected = FALSE
    /\ available_tools = {}
    /\ invoked = <<>>
    /\ llm_calls = <<>>
    /\ raised = "none"
    /\ ret = NoReturn
    /\ other_pc = "idle"
    /\ files = EmptyDataDir
    /\ fs_trace = <<>>
    /\ response_text = NoText
    /\ parsed = NotParsed
    /\ discovery = [p \in Callers |-> Idle]
    /\ refreshed = <<>>
    /\ observed = [directory |-> {}, refreshed |-> <<>>]

\* the user_message a caller may pass to process_request
Requests == {"list the files", "read notes.txt"}

\* process_request: initial_state, then the graph's entry point
process_request_start ==
    /\ pc = "idle"
    /\ pc' = "analyze_request"
    /\ \E user_message \in Requests : messages' = <<user_message>>
    /\ current_task' = ""
    /\ selected_tools' = <<>>
    /\ tool_results' = <<>>
    /\ step_count' = 0
    /\ final_response' = Text("empty")
    /\ UNCHANGED <<max_steps, i, execution_results, connected, available_tools,
                   invoked, llm_calls, raised, ret, other_pc, fs_vars, parse_vars, dir_vars>>

-----------------------------------------------------------------------------
(* The nodes.                                                              *)

\* a return path that puts its message in front of the conversation
NodeReturnsPrepending(message) ==
    /\ messages' = <<message>> \o messages
    /\ step_count' = step_count + 1

\* a return path that appends its message but does not count the step
NodeReturnsUncounted(message) ==
    /\ messages' = Append(messages, message)
    /\ UNCHANGED step_count

\* what every return path of a node does last: one message, one step
NodeReturns(message) ==
    /\ messages' = Append(messages, message)
    /\ step_count' = step_count + 1

\* _analyze_request_node
analyze_request_node ==
    /\ pc = "analyze_request"
    /\ \E c \in ConnectOutcomes, d \in DiscoverOutcomes, r \in AnalysisCompletions :
        LET conn == connect(c)
            directory == get_available_tools(conn.available_tools, d)
            analysis == IF r.kind = "raise" THEN None
                        ELSE parse_json_response(r.content)
        IN  /\ connected' = conn.connected
            /\ IF ~conn.returns
               THEN \* "Could not connect to MCP server": early return
                    /\ available_tools' = conn.available_tools
                    /\ selected_tools' = <<>>
                    /\ NodeReturns("warning_not_connected")
                    /\ UNCHANGED <<current_task, llm_calls>>
               ELSE /\ available_tools' = directory
                    /\ llm_calls' = Append(llm_calls, [node |-> "analyze_request",
                                                   outcome |-> r.kind])
                    /\ IF r.kind = "raise"
                       THEN \* the handler calls self._create_fallback_tools,
                            \* which the class does not define: the
                            \* AttributeError reaches the node's outer handler
                            /\ selected_tools' = <<>>
                            /\ NodeReturns("analysis_error")
                            /\ UNCHANGED current_task
                       ELSE /\ current_task' = analysis.task_analysis
                            /\ selected_tools' = analysis.selected_tools
                            /\ NodeReturns("analysis_complete")
    /\ pc' = "execute_tools"
    /\ UNCHANGED <<tool_results, max_steps, final_response, i, execution_results,
                   invoked, raised, ret, other_pc, fs_vars, parse_vars, dir_vars>>

\* state["selected_tools"] had the node sorted it in place with list.sort
plan_sorted_in_place(plan) == tools_to_execute(plan)

\* state["selected_tools"] after sorted(state["selected_tools"], key=...):
\* sorted builds a new list and leaves its argument alone
plan_after_sorted(plan) == plan

\* _execute_tools_node, up to the first await of its loop
execute_tools_node ==
    /\ pc = "execute_tools"
    /\ IF selected_tools = <<>>
       THEN /\ NodeReturns("no_tools")
            /\ pc' = "route"
            /\ UNCHANGED <<i, execution_results, invoked, selected_tools>>
       ELSE IF SortRaises(selected_tools)
       THEN \* the TypeError of sorted() reaches the node's outer handler
            /\ NodeReturns("execution_error")
            /\ pc' = "route"
            /\ UNCHANGED <<i, execution_results, invoked, selected_tools>>
       ELSE /\ selected_tools' = plan_after_sorted(selected_tools)
            /\ i' = 1
            /\ execution_results' = <<>>
            /\ invoked' = Append(invoked, <<>>)
            /\ pc' = "execute_loop"
            /\ UNCHANGED <<messages, step_count>>
    /\ UNCHANGED <<current_task, tool_results, max_steps, final_response,
                   connected, available_tools, llm_calls, raised, ret, other_pc,
                   fs_vars, parse_vars, dir_vars>>

\* lines 404-420 of _execute_tools_node: the pass completed
ExecutionCompletes(results) ==
    /\ tool_results' = results
    /\ NodeReturns("execution_complete")
    /\ pc' = "route"
    /\ i' = 0
    /\ execution_results' = <<>>

\* StopsAfter without the break on a failed critical spec
StopsAfterLastOnly(tool_spec, result, n) == i = n

\* the loop stops after this iteration's outcome
StopsAfter(tool_spec, result, n) ==
    \/ ~result.success /\ Get(tool_spec, "critical", FALSE)
    \/ i = n

\* the sleep of lines 400-402 without its test of the index
SleepsAfterEvery(tool_spec, result, n) ==
    ~(~result.success /\ Get(tool_spec, "critical", FALSE))

\* asyncio.sleep(0.5) follows this iteration's outcome: no break left the
\* loop, and the spec is not the last one (lines 400-402)
SleepsAfter(tool_spec, result, n) ==
    /\ ~(~result.success /\ Get(tool_spec, "critical", FALSE))
    /\ i < n

\* one iteration of the loop of _execute_tools_node, and whatever follows it
\* without a further await
execute_tools_iteration ==
    /\ pc = "execute_loop"
    /\ LET todo == tools_to_execute(selected_tools)
           tool_spec == todo[i]
       IN  IF "tool" \notin DOMAIN tool_spec
           THEN \* tool_spec["tool"] raises KeyError outside the inner try: the
                \* node's outer handler discards execution_results
                /\ NodeReturns("execution_error")
                /\ pc' = "route"
                /\ i' = 0
                /\ execution_results' = <<>>
                /\ UNCHANGED <<tool_results, invoked>>
           ELSE \E b \in BackendOutcomes :
                LET tool_name == tool_spec["tool"]
                    parameters == tool_spec["parameters"]
                    result == IF call_tool_hangs(tool_name, b)
                              THEN timeout_result(tool_name, parameters)
                              ELSE call_tool(tool_name, parameters, b)
                    results == Append(execution_results, result)
                IN  /\ invoked' = [invoked EXCEPT ![Len(invoked)] =
                                    Append(@, [parameters |-> parameters,
                                               success |-> result.success,
                                               timed_out |->
                                                 \/ call_tool_hangs(tool_name, b)
                                                 \/ call_tool_times_out(tool_name, b),
                                               delayed |->
                                                 SleepsAfter(tool_spec, result,
                                                             Len(todo))])]
                    /\ IF StopsAfter(tool_spec, result, Len(todo))
                       THEN ExecutionCompletes(results)
                       ELSE \* asyncio.sleep(0.5), then the next iteration
                            /\ execution_results' = results
                            /\ i' = i + 1
                            /\ UNCHANGED <<pc, tool_results, messages, step_count>>
    /\ UNCHANGED <<current_task, selected_tools, max_steps, final_response,
                   connected, available_tools, llm_calls, raised, ret, other_pc, fs_vars, parse_vars, dir_vars>>

\* the test of the inner loop of _should_continue_execution
MatchesCritical(tool_spec, result) ==
    /\ "tool" \in DOMAIN tool_spec
    /\ tool_spec["tool"] = result.tool_name
    /\ Get(tool_spec, "critical", FALSE)

\* the inner loop reads tool_spec["tool"] of a spec that has no such key
\* before it finds a match for the failed result: KeyError
ScanRaises(plan, result) ==
    \E k \in 1..Len(plan) :
        /\ "tool" \notin DOMAIN plan[k]
        /\ \A j \in 1..(k - 1) : ~MatchesCritical(plan[j], result)

\* critical_failures of _should_continue_execution
critical_failures(plan, results) ==
    SelectSeq(results,
              LAMBDA r : ~r.success /\ \E k \in 1..Len(plan) : MatchesCritical(plan[k], r))

\* _should_continue_execution with the empty outcome list examined before
\* the empty plan
should_continue_results_first(steps, budget, plan, results) ==
    IF steps >= budget THEN "respond"
    ELSE IF results = <<>> THEN "continue"
    ELSE IF plan = <<>> THEN "respond"
    ELSE IF \E k \in 1..Len(results) : ~results[k].success /\ ScanRaises(plan, results[k])
    THEN "raise"
    ELSE IF critical_failures(plan, results) # <<>> THEN "error"
    ELSE "respond"

\* _should_continue_execution with the critical failures examined before the
\* step budget
should_continue_critical_first(steps, budget, plan, results) ==
    IF plan = <<>> THEN "respond"
    ELSE IF results = <<>> THEN (IF steps >= budget THEN "respond" ELSE "continue")
    ELSE IF \E k \in 1..Len(results) : ~results[k].success /\ ScanRaises(plan, results[k])
    THEN "raise"
    ELSE IF critical_failures(plan, results) # <<>> THEN "error"
    ELSE "respond"

\* _should_continue_execution: the edge it names, or "raise"
should_continue_execution(steps, budget, plan, results) ==
    IF steps >= budget THEN "respond"
    ELSE IF plan = <<>> THEN "respond"
    ELSE IF results = <<>> THEN "continue"
    ELSE IF \E k \in 1..Len(results) : ~results[k].success /\ ScanRaises(plan, results[k])
    THEN "raise"
    ELSE IF critical_failures(plan, results) # <<>> THEN "error"
    ELSE "respond"

\* the node the conditional edge of _create_workflow maps the answer to
EdgeTarget(edge) ==
    CASE edge = "continue" -> "execute_tools"
      [] edge = "respond" -> "generate_response"
      [] edge = "error" -> "error_recovery"

\* the conditional edge after execute_tools
route ==
    /\ pc = "route"
    /\ LET edge == should_continue_execution(step_count, max_steps, selected_tools,
                                             tool_results)
       IN  IF edge = "raise"
           THEN pc' = "raised" /\ raised' = "should_continue_execution"
           ELSE pc' = EdgeTarget(edge) /\ UNCHANGED raised
    /\ UNCHANGED <<state_vars, max_steps, i, execution_results, connected,
                   available_tools, invoked, llm_calls, ret, other_pc, fs_vars, parse_vars, dir_vars>>

\* _summarize_result of a successful result
summarize_result(result) == "summary"

\* a report that lists the failures alone
recovery_report_of_failures(results) ==
    LET failed_tools == SelectSeq(results, LAMBDA r : ~r.success)
    IN  [kind |-> IF results = <<>> THEN "recovery_general" ELSE "recovery",
         succ |-> <<>>,
         fail |-> [k \in 1..Len(failed_tools) |->
                    <<failed_tools[k].tool_name,
                      IF failed_tools[k].error \in {None, ""}
                      THEN "Unknown error" ELSE failed_tools[k].error>>]]

\* the report _error_recovery_node builds
recovery_report(results) ==
    LET successful_tools == SelectSeq(results, LAMBDA r : r.success)
        failed_tools == SelectSeq(results, LAMBDA r : ~r.success)
    IN  [kind |-> IF results = <<>> THEN "recovery_general" ELSE "recovery",
         succ |-> [k \in 1..Len(successful_tools) |->
                    <<successful_tools[k].tool_name,
                      summarize_result(successful_tools[k])>>],
         fail |-> [k \in 1..Len(failed_tools) |->
                    <<failed_tools[k].tool_name,
                      IF failed_tools[k].error \in {None, ""}
                      THEN "Unknown error" ELSE failed_tools[k].error>>]]

\* _error_recovery_node
error_recovery_node ==
    /\ pc = "error_recovery"
    /\ final_response' = recovery_report(tool_results)
    /\ NodeReturns("recovery")
    /\ pc' = "generate_response"
    /\ UNCHANGED <<current_task, selected_tools, tool_results, max_steps, i,
                   execution_results, connected, available_tools, invoked,
                   llm_calls, raised, ret, other_pc, fs_vars, parse_vars, dir_vars>>

\* the text of a completion that returned
completion_text(r) == IF r = "empty" THEN Text("empty") ELSE Text("llm_text")

\* the prompt _generate_response_node sends: the original request, and the
\* formatted outcomes when there are any
response_prompt(original_request, results) ==
    IF results = <<>> THEN [request |-> original_request]
    ELSE [request |-> original_request, results |-> results]

\* a clarification text that quotes nothing
clarification_without_request(original_request) == Text("clarification")

\* the clarification text _generate_response_node builds without the
\* completion service; it quotes the original request
clarification(original_request) ==
    [kind |-> "clarification", succ |-> <<>>, fail |-> <<>>,
     request |-> original_request]

\* direct_response had the branch no handler around its completion call
direct_response_unguarded(r, original_request) == completion_text(r)

\* the branch of _generate_response_node for an empty tool_results
direct_response(r, original_request) ==
    IF r = "raise" THEN clarification(original_request) ELSE completion_text(r)

\* RespondRaises if the branch for an empty tool_results had the same handler
RespondRaisesAlways(r, results) == r = "raise"

\* the completion call of the branch for a non-empty tool_results raised, and
\* so does the handler
RespondRaises(r, results) == r = "raise" /\ results # <<>>

\* _generate_response_node
generate_response_node ==
    /\ pc = "generate_response"
    /\ \E r \in ResponseCompletions :
        /\ llm_calls' = Append(llm_calls,
                            [node |-> "generate_response", outcome |-> r,
                             prompt |-> response_prompt(messages[1], tool_results)])
        /\ IF RespondRaises(r, tool_results)
           THEN \* the handler calls self._create_fallback_response, which the
                \* class does not define; so does the node's outer handler: the
                \* AttributeError leaves the node
                /\ pc' = "raised"
                /\ raised' = "generate_response"
                /\ UNCHANGED state_vars
           ELSE /\ final_response' = IF tool_results = <<>>
                                     THEN direct_response(r, messages[1])
                                     ELSE completion_text(r)
                /\ NodeReturns("response")
                /\ pc' = "END"
                /\ UNCHANGED <<current_task, selected_tools, tool_results, raised>>
    /\ UNCHANGED <<max_steps, i, execution_results, connected, available_tools,
                   invoked, ret, other_pc, fs_vars, parse_vars, dir_vars>>

\* process_request after the workflow ended: disconnect, return the state
process_request_returns ==
    /\ pc = "END"
    /\ connected' = FALSE
    /\ ret' = [success |-> TRUE, final_response |-> final_response,
               messages |-> messages, tool_results |-> tool_results,
               steps_taken |-> step_count]
    /\ pc' = "returned"
    /\ UNCHANGED <<state_vars, max_steps, i, execution_results, available_tools,
                   invoked, llm_calls, raised, other_pc, fs_vars, parse_vars, dir_vars>>

\* process_request without its handler: the exception reaches the caller
process_request_propagates ==
    /\ pc = "raised"
    /\ pc' = "propagated"
    /\ UNCHANGED <<state_vars, max_steps, i, execution_results, connected,
                   available_tools, invoked, llm_calls, raised, ret, other_pc, fs_vars, parse_vars, dir_vars>>

\* process_request's handler: an exception left the workflow
process_request_except ==
    /\ pc = "raised"
    /\ ret' = [success |-> FALSE, final_response |-> Text("processing_error"),
               messages |-> <<>>, tool_results |-> <<>>, steps_taken |-> 0]
    /\ pc' = "returned"
    /\ UNCHANGED <<state_vars, max_steps, i, execution_results, connected,
                   available_tools, invoked, llm_calls, raised, other_pc, fs_vars, parse_vars, dir_vars>>

Next ==
    \/ process_request_start
    \/ analyze_request_node
    \/ execute_tools_node
    \/ execute_tools_iteration
    \/ route
    \/ error_recovery_node
    \/ generate_response_node
    \/ process_request_returns
    \/ process_request_except

Spec == Init /\ [][Next]_vars

\* the event loop runs a request that was started to its return
FairSpec == Spec /\ WF_vars(Next)

-----------------------------------------------------------------------------
(* A second process_request call on the same agent, interleaved with the   *)
(* first at its awaits.  Both calls use self.mcp_client; of the second     *)
(* call only what it does to that client is modelled.                      *)

\* what the first call owns, and the histories kept about it
first_run_vars ==
    <<pc, state_vars, max_steps, i, execution_results, invoked, llm_calls,
      raised, ret>>

\* process_request is called a second time
other_process_request_start ==
    /\ other_pc = "idle"
    /\ other_pc' = "analyze_request"
    /\ UNCHANGED <<first_run_vars, connected, available_tools, fs_vars, parse_vars, dir_vars>>

\* _analyze_request_node of the second call: connect and get_available_tools
\* on the shared client
other_analyze_request_node ==
    /\ other_pc = "analyze_request"
    /\ \E c \in ConnectOutcomes, d \in DiscoverOutcomes :
        LET conn == connect(c)
        IN  /\ connected' = conn.connected
            /\ available_tools' = IF conn.returns
                                  THEN get_available_tools(conn.available_tools, d)
                                  ELSE conn.available_tools
    /\ other_pc' = "running"
    /\ UNCHANGED <<first_run_vars, fs_vars, parse_vars, dir_vars>>

\* the second call's workflow ended: process_request disconnects the shared
\* client and returns
other_process_request_returns ==
    /\ other_pc = "running"
    /\ connected' = FALSE
    /\ other_pc' = "returned"
    /\ UNCHANGED <<first_run_vars, available_tools, fs_vars, parse_vars, dir_vars>>

\* an exception left the second call's workflow: process_request's handler
\* returns without disconnecting
other_process_request_except ==
    /\ other_pc = "running"
    /\ other_pc' = "returned"
    /\ UNCHANGED <<first_run_vars, connected, available_tools, fs_vars, parse_vars, dir_vars>>

ConcNext ==
    \/ Next
    \/ other_process_request_start
    \/ other_analyze_request_node
    \/ other_process_request_returns
    \/ other_process_request_except

\* two process_request calls on one agent
ConcSpec == Init /\ [][ConcNext]_vars

-----------------------------------------------------------------------------
(* Calls of the filesystem tool, one after the other, on one data          *)
(* directory.                                                              *)

\* what the agent's run owns: untouched by the tool functions
agent_vars ==
    <<pc, state_vars, max_steps, i, execution_results, connected,
      available_tools, invoked, llm_calls, raised, ret, other_pc>>

\* one call of _filesystem_operation with the given input
FsCall(input_data) ==
    /\ Len(fs_trace) < MaxOps
    /\ LET out == filesystem_operation(input_data, files)
       IN  /\ files' = out.files
           /\ fs_trace' = Append(fs_trace, [input |-> input_data,
                                            result |-> out.result])
    /\ UNCHANGED <<agent_vars, parse_vars, dir_vars>>

fs_read == \E q \in FsPaths : FsCall(FileOperationInput("read", q, None))

fs_write ==
    \E q \in FsPaths, c \in Contents : FsCall(FileOperationInput("write", q, c))

fs_list == \E q \in FsPaths : FsCall(FileOperationInput("list", q, None))

fs_delete == \E q \in FsPaths : FsCall(FileOperationInput("delete", q, None))

\* an operation that is none of the four
fs_invalid == FsCall(FileOperationInput("chmod", ".", None))

FsNext ==
    \/ fs_read
    \/ fs_write
    \/ fs_list
    \/ fs_delete
    \/ fs_invalid

\* a fresh data directory and a caller of the tool function
FsInit == Init /\ max_steps = MaxBudget

FsSpec == FsInit /\ [][FsNext]_vars

-----------------------------------------------------------------------------
(* _parse_json_response on its own: a completion text arrives, the parser  *)
(* is applied to it.                                                       *)

\* the fields an object of a completion may carry, with the values tried
ObjectFields == {"task_analysis", "selected_tools", "execution_plan"}

FullObjects ==
    [task_analysis : {"task"},
     selected_tools : {<<>>, <<WithParameters([tool |-> "filesystem"], 1)>>},
     execution_plan : {"plan"}]

\* the JSON objects tried: every subset of the fields, the empty object too
Objects == {[k \in D |-> o[k]] : o \in FullObjects, D \in SUBSET ObjectFields}

\* the JSON values tried
JsonValues ==
    {JsonObject(o) : o \in Objects}
    \cup {JsonArray(<<JsonObject(o)>>) : o \in Objects}
    \cup {JsonArray(<<>>), JsonArray(<<JsonNumber>>),
          JsonArray(<<JsonNumber, JsonObject([task_analysis |-> "task"])>>),
          JsonArray(<<JsonObject([task_analysis |-> "task"]),
                      JsonObject([execution_plan |-> "plan"])>>),
          JsonNumber, NotJson}

CompletionForms == {"bare", "prose", "fenced", "fenced_open"}

\* the arguments _parse_json_response is tried on
ResponseTexts ==
    {Completion(form, value) : form \in CompletionForms, value \in JsonValues}
    \cup {NotAString}

agent_fs_vars == <<agent_vars, fs_vars>>

\* the completion service returned
llm_returns ==
    /\ response_text = NoText
    /\ response_text' \in ResponseTexts
    /\ UNCHANGED <<agent_fs_vars, parsed, dir_vars>>

\* _parse_json_response(response_text)
parse_response ==
    /\ response_text # NoText
    /\ parsed = NotParsed
    /\ parsed' = parse_json_response(response_text)
    /\ UNCHANGED <<agent_fs_vars, response_text, dir_vars>>

ParseNext == llm_returns \/ parse_response

ParseInit == Init /\ max_steps = MaxBudget

ParseSpec == ParseInit /\ [][ParseNext]_vars

-----------------------------------------------------------------------------
(* MCPClient.discover_tools step by step, called by two coroutines of one  *)
(* event loop on one client, next to readers of the directory.             *)

\* what session.list_tools may answer, as the names in tools_response.tools
Listings ==
    {<<>>, <<"filesystem">>, <<"database_query">>,
     <<"filesystem", "database_query">>}

\* the names a list holds
Names(tools) == {tools[k] : k \in 1..Len(tools)}

\* a coroutine gives the event loop to the others wherever it stands
YieldsEverywhere(at) == TRUE

\* where a coroutine stands at an await, so that the event loop may run
\* another one: outside discover_tools, at the awaits of lines 71-74, and at
\* the exit of the two async with blocks; lines 76-87 hold no await
Yields(at) == at \in {"idle", "listing", "closing"}

\* the event loop may run caller p
Runs(p) == \A q \in Callers \ {p} : Yields(discovery[q].at)

other_vars == <<agent_vars, fs_vars, parse_vars>>

\* discover_tools is called: lines 63-74, up to the await of list_tools
discover_start(p) ==
    /\ Runs(p)
    /\ discovery[p].at = "idle"
    /\ discovery' = [discovery EXCEPT ![p].at = "listing"]
    /\ UNCHANGED <<other_vars, refreshed, observed>>

\* the server cannot be reached, or the call is cancelled: lines 93-95
discover_fails(p) ==
    /\ Runs(p)
    /\ discovery[p].at = "listing"
    /\ discovery' = [discovery EXCEPT ![p] = Idle]
    /\ UNCHANGED <<other_vars, refreshed, observed>>

\* list_tools answers: line 76 replaces the directory by an empty dict
discover_lists(p) ==
    /\ Runs(p)
    /\ discovery[p].at = "listing"
    /\ \E tools \in Listings :
        discovery' = [discovery EXCEPT ![p] = [at |-> "filling", tools |-> tools,
                                              k |-> 0]]
        /\ refreshed' = tools
    /\ available_tools' = {}
    /\ UNCHANGED <<pc, state_vars, max_steps, i, execution_results, connected,
                   invoked, llm_calls, raised, ret, other_pc, fs_vars,
                   parse_vars, observed>>

\* one turn of the loop of lines 78-87
discover_fill(p) ==
    /\ Runs(p)
    /\ discovery[p].at = "filling"
    /\ discovery[p].k < Len(discovery[p].tools)
    /\ available_tools' = available_tools \cup {discovery[p].tools[discovery[p].k + 1]}
    /\ discovery' = [discovery EXCEPT ![p].k = @ + 1]
    /\ UNCHANGED <<pc, state_vars, max_steps, i, execution_results, connected,
                   invoked, llm_calls, raised, ret, other_pc, fs_vars,
                   parse_vars, refreshed, observed>>

\* the loop is over: the two async with blocks are left
discover_filled(p) ==
    /\ Runs(p)
    /\ discovery[p].at = "filling"
    /\ discovery[p].k = Len(discovery[p].tools)
    /\ discovery' = [discovery EXCEPT ![p].at = "closing"]
    /\ UNCHANGED <<other_vars, refreshed, observed>>

\* lines 88-92, or the handler of 93-95 if leaving the blocks raised
discover_returns(p) ==
    /\ Runs(p)
    /\ discovery[p].at = "closing"
    /\ discovery' = [discovery EXCEPT ![p] = Idle]
    /\ UNCHANGED <<other_vars, refreshed, observed>>

\* get_available_tools (99, 101), get_tool_info (105) or call_tool (116)
\* reads self.available_tools
read_directory(p) ==
    /\ Runs(p)
    /\ discovery[p].at = "idle"
    /\ observed' = [directory |-> available_tools, refreshed |-> refreshed]
    /\ UNCHANGED <<other_vars, discovery, refreshed>>

DirNext ==
    \E p \in Callers :
        \/ discover_start(p)
        \/ discover_fails(p)
        \/ discover_lists(p)
        \/ discover_fill(p)
        \/ discover_filled(p)
        \/ discover_returns(p)
        \/ read_directory(p)

DirInit == Init /\ max_steps = MaxBudget

DirSpec == DirInit /\ [][DirNext]_vars

-----------------------------------------------------------------------------
(* Properties.                                                             *)

Nodes == {"analyze_request", "execute_tools", "error_recovery", "generate_response"}

Last(s) == s[Len(s)]

\* a text is the empty string
IsEmptyText(t) == t.kind = "empty"

\* the calls of the latest Execute pass that entered its loop
LatestPass == IF invoked = <<>> THEN <<>> ELSE Last(invoked)

\* C1: a run ends after at most max_steps node transitions: when
\* process_request returns, the step counter of the run's state is at most
\* the step budget.
C1_StepsWithinBudget ==
    pc \in {"END", "returned"} => step_count <= max_steps

\* C2: every run goes through generate_response to the terminal state: when
\* process_request returns, the workflow has ended at END, with the answer
\* of generate_response as the last message, whatever failed on the way.
C2_EndsThroughRespond ==
    pc = "returned" =>
        /\ ret.success
        /\ ret.messages # <<>>
        /\ Last(ret.messages) = "response"

\* C3: no node lets an error escape: no exception of analyze_request,
\* execute_tools, error_recovery or generate_response leaves the node.
C3_NoNodeRaises == raised \notin Nodes

\* the completion service failed in generate_response
RespondCompletionFailed ==
    /\ llm_calls # <<>>
    /\ Last(llm_calls).node = "generate_response"
    /\ Last(llm_calls).outcome = "raise"

\* C4: with a non-empty outcome list and the completion service failing in
\* generate_response, the run completes with success = true, the templated
\* summary of the outcomes as final answer, and the outcome list returned.
C4_FallbackSummary ==
    (pc = "returned" /\ tool_results # <<>> /\ RespondCompletionFailed) =>
        /\ ret.success
        /\ ret.final_response.kind = "fallback_summary"
        /\ ret.tool_results = tool_results

\* C5: the final answer process_request returns is never the empty text.
C5_AnswerNonEmpty ==
    pc = "returned" => ~IsEmptyText(ret.final_response)

\* the spec an outcome was produced for: its parameters identify it
SpecOf(result) == selected_tools[result.parameters]

\* spec number a of the plan is executed before spec number b: smaller
\* sequence index first, equal indices in plan order
ExecutedBefore(a, b) ==
    \/ SequenceKey(selected_tools[a]) < SequenceKey(selected_tools[b])
    \/ SequenceKey(selected_tools[a]) = SequenceKey(selected_tools[b]) /\ a < b

\* call number k of the latest Execute pass was for a critical spec and failed
CriticalFailureAt(k) ==
    /\ k \in 1..Len(LatestPass)
    /\ ~LatestPass[k].success
    /\ Get(selected_tools[LatestPass[k].parameters], "critical", FALSE)

\* a critical spec was attempted in the latest Execute pass and failed
CriticalSpecFailed == \E k \in 1..Len(LatestPass) : CriticalFailureAt(k)

\* C6: after an Execute pass in which a critical spec failed, the outcome
\* list holds exactly the outcomes of the specs executed up to and including
\* that spec: the failing critical spec has the last outcome, every spec
\* executed before it has one, and no spec after it was called or recorded.
C6_StopsAtFirstCriticalFailure ==
    pc = "route" =>
        \A k \in 1..Len(LatestPass) :
            CriticalFailureAt(k) =>
                /\ Len(LatestPass) = k
                /\ Len(tool_results) = k
                /\ tool_results[k].parameters = LatestPass[k].parameters
                /\ ~tool_results[k].success
                /\ \A b \in 1..Len(selected_tools) :
                     ExecutedBefore(b, LatestPass[k].parameters) <=>
                        \E j \in 1..(k - 1) : tool_results[j].parameters = b

\* C6, witness: a two-spec plan whose first executed spec is critical and
\* failed; the pass is over and the second spec has no outcome.
C6_Witness ==
    /\ pc = "route"
    /\ Len(selected_tools) = 2
    /\ CriticalFailureAt(1)
    /\ Len(tool_results) = 1

\* C7 as stated: whatever the step budget, after an Execute pass in which a
\* critical spec failed the next node is error_recovery.
C7_RecoverForEveryBudget ==
    [][(pc = "route" /\ CriticalSpecFailed) => pc' = "error_recovery"]_vars

\* C7, amended: after an Execute pass in which a critical spec failed, the
\* edge taken leads to generate_response exactly when the step counter has
\* reached the step budget; below the budget the only node entered next is
\* error_recovery (never generate_response, never execute_tools again).
C7_RecoverBelowBudget ==
    [][(pc = "route" /\ CriticalSpecFailed) =>
          /\ step_count >= max_steps => pc' = "generate_response"
          /\ step_count < max_steps => pc' \in {"error_recovery", "raised"}
          /\ pc' = "raised" => \E k \in 1..Len(selected_tools) :
                                    "tool" \notin DOMAIN selected_tools[k]]_vars

\* C7, witness: error_recovery entered right after an Execute pass in which
\* a critical spec failed.
C7_Witness ==
    /\ pc = "error_recovery"
    /\ Last(messages) = "execution_complete"
    /\ CriticalSpecFailed
    /\ step_count < max_steps

\* C8: for a plan without a critical spec, the Execute pass leaves one
\* outcome per spec of the plan.
C8_AllSpecsAttempted ==
    (/\ pc = "route"
     /\ \A k \in 1..Len(selected_tools) : ~Get(selected_tools[k], "critical", FALSE))
        => Len(tool_results) = Len(selected_tools)

\* C9: the recorded outcomes are in execution order of their specs, ascending
\* by sequence index (a spec without one counts as 0) and, among equal
\* indices, in plan order; no spec is skipped in that order.  The same holds
\* of the outcomes collected while the pass is running.
OrderedBySequence(results) ==
    /\ \A j, k \in 1..Len(results) :
         j < k => ExecutedBefore(results[j].parameters, results[k].parameters)
    /\ \A k \in 1..Len(results) : \A b \in 1..Len(selected_tools) :
         ExecutedBefore(b, results[k].parameters) =>
            \E j \in 1..(k - 1) : results[j].parameters = b

C9_OutcomesInSequenceOrder ==
    OrderedBySequence(tool_results) /\ OrderedBySequence(execution_results)

\* C9, witness: a plan given out of order (its second spec has the smaller
\* sequence index) with both outcomes recorded, the second spec's first.
C9_Witness ==
    /\ pc = "route"
    /\ Len(tool_results) = 2
    /\ tool_results[1].parameters = 2
    /\ tool_results[2].parameters = 1
    /\ SequenceKey(selected_tools[2]) < SequenceKey(selected_tools[1])

\* C10: after an Execute pass, the recorded outcome list holds exactly one
\* outcome for every spec call_tool was called for in that pass, in call
\* order.
C10_EveryAttemptRecorded ==
    (pc = "route" /\ invoked # <<>>) =>
        /\ Len(tool_results) = Len(LatestPass)
        /\ \A k \in 1..Len(LatestPass) :
             /\ tool_results[k].parameters = LatestPass[k].parameters
             /\ tool_results[k].success = LatestPass[k].success

\* the number of call_tool calls of the run made for spec number b of the plan
CallsFor(b) ==
    LET InPass(n) == Cardinality({k \in 1..Len(invoked[n]) : invoked[n][k].parameters = b})
        RECURSIVE Sum(_)
        Sum(n) == IF n = 0 THEN 0 ELSE Sum(n - 1) + InPass(n)
    IN  Sum(Len(invoked))

\* C11: no retries: within one run call_tool is called at most once for each
\* spec of the plan, however often execute_tools is entered.
C11_NoRetries ==
    \A b \in 1..Len(selected_tools) : CallsFor(b) <= 1

\* the error text says that the call timed out
ContainsTimedOut(error) == error = "Tool execution timed out"

\* the outcomes the latest Execute pass has produced so far, or has recorded
PassOutcomes ==
    IF pc = "execute_loop" THEN execution_results
    ELSE IF Len(tool_results) = Len(LatestPass) THEN tool_results
    ELSE <<>>

\* C12: the outcome of a call that did not complete within its time limit
\* has success = false and an error text containing "timed out"; a plan of
\* one critical spec that timed out leaves exactly that one outcome.
C12_TimeoutRecorded ==
    /\ \A k \in 1..Len(PassOutcomes) :
         LatestPass[k].timed_out =>
            /\ ~PassOutcomes[k].success
            /\ ContainsTimedOut(PassOutcomes[k].error)
    /\ (/\ pc = "route"
        /\ Len(selected_tools) = 1
        /\ Len(LatestPass) = 1
        /\ LatestPass[1].timed_out) => Len(tool_results) = 1

\* the run went through _error_recovery_node
Recovered == \E k \in 1..Len(messages) : messages[k] = "recovery"

\* C13: on a run that routes to Recover the completion service is not called
\* from the moment Recover is entered until the run ends (the only call a run
\* makes before Recover is the planning call of Analyze), and the run is not
\* aborted by the completion service being unavailable.
C13_NoCompletionAfterRecover ==
    Recovered =>
        /\ \A k \in 1..Len(llm_calls) : llm_calls[k].node = "analyze_request"
        /\ raised = "none"

\* C14: on a run that went through Recover, the answer returned to the caller
\* is the report of _error_recovery_node over the recorded outcomes, listing
\* the successful and the failed ones (one failure and no success for a
\* single critical spec that timed out).
C14_RecoveryReportReturned ==
    (pc = "returned" /\ Recovered) =>
        /\ ret.final_response = recovery_report(tool_results)
        /\ (Len(selected_tools) = 1 /\ LatestPass[1].timed_out) =>
              /\ Len(ret.final_response.succ) = 0
              /\ Len(ret.final_response.fail) = 1

\* the completion service raised during planning
PlanningFailed ==
    /\ llm_calls # <<>>
    /\ llm_calls[1] = [node |-> "analyze_request", outcome |-> "raise"]

\* C15: if the completion service raises during planning, the plan is empty,
\* no tool is called, no error leaves a node, the run goes on to
\* generate_response and returns its message with success = true; if the
\* completion service also raises there, the returned answer is the
\* clarification text quoting the original request.
C15_PlanningFailureFallsBack ==
    PlanningFailed =>
        /\ selected_tools = <<>>
        /\ invoked = <<>>
        /\ raised = "none"
        /\ pc \in {"execute_tools", "route", "generate_response", "END", "returned"}
        /\ pc = "returned" =>
              /\ ret.success
              /\ Last(ret.messages) = "response"
              /\ RespondCompletionFailed =>
                    /\ ret.final_response.kind = "clarification"
                    /\ Get(ret.final_response, "request", None) = ret.messages[1]

C15_Witness ==
    /\ pc = "returned"
    /\ PlanningFailed
    /\ RespondCompletionFailed
    /\ ret.final_response = clarification(messages[1])

\* connect() returned False in analyze_request
ConnectFailed == Len(messages) >= 2 /\ messages[2] = "warning_not_connected"

\* C16: when connect() fails during analyze_request the plan is empty, no
\* tool is called during the run, no error leaves a node, and the run returns
\* through generate_response with success = true and the answer that node
\* produced.
C16_UnreachableBackendNotFatal ==
    ConnectFailed =>
        /\ selected_tools = <<>>
        /\ invoked = <<>>
        /\ tool_results = <<>>
        /\ raised = "none"
        /\ pc \in {"execute_tools", "route", "generate_response", "END", "returned"}
        /\ pc = "returned" =>
              /\ ret.success
              /\ Last(ret.messages) = "response"
              /\ ret.final_response = final_response
              /\ ret.final_response.kind \in {"llm_text", "empty", "clarification"}

C16_Witness ==
    /\ pc = "returned"
    /\ ConnectFailed
    /\ ~connected
    /\ ret.success
    /\ RespondCompletionFailed

\* an outcome records that MCPClient.call_tool found the client disconnected
FailedDisconnected(result) == result.error = "Client is not connected"

\* C17: a run's tool calls are not made to fail by another process_request
\* call on the same agent: the run connects in analyze_request before it
\* calls any tool, so no outcome it records is the failure of a call made
\* on a disconnected client, whatever the other call does meanwhile.
C17_RunsDoNotInterfere ==
    /\ \A k \in 1..Len(execution_results) : ~FailedDisconnected(execution_results[k])
    /\ \A k \in 1..Len(tool_results) : ~FailedDisconnected(tool_results[k])

\* the texts process_request can return as final answer
AnswerKinds ==
    {"llm_text", "empty", "clarification", "recovery", "recovery_general",
     "processing_error"}

\* C18: process_request does not raise to its caller: whatever fails inside
\* the workflow, a call that was started goes on until it returns, and what
\* it returns is a record with a success flag and a final answer text; when
\* an exception left the workflow the flag is false and the text is the
\* processing-error text.
C18_NeverRaisesToCaller ==
    /\ pc \notin {"idle", "returned"} => ENABLED Next
    /\ pc = "returned" =>
          /\ ret.success \in BOOLEAN
          /\ ret.final_response.kind \in AnswerKinds
          /\ ret.success <=> raised = "none"
          /\ raised # "none" => ret.final_response = Text("processing_error")

C18_Witness ==
    /\ pc = "returned"
    /\ raised = "generate_response"
    /\ ~ret.success
    /\ ret.final_response = Text("processing_error")

\* C19: the record process_request returns reflects the run: its outcome
\* list is the one the execute_tools node recorded, its conversation is the
\* run's whole conversation, and its steps-taken is the number of node
\* transitions the run performed.
C19_ReturnReflectsRun ==
    pc = "returned" =>
        /\ ret.tool_results = tool_results
        /\ ret.messages = messages
        /\ ret.steps_taken = step_count

\* a failed outcome carries an error text
HasErrorText(result) == result.error \notin {None, ""}

\* call number k of the latest Execute pass named a tool that is not in the
\* directory, for a spec that is not critical
UnknownToolAt(k) ==
    LET tool_spec == tools_to_execute(selected_tools)[k]
    IN  /\ tool_spec["tool"] \notin available_tools
        /\ ~Get(tool_spec, "critical", FALSE)

\* C20: a failed tool call is recorded, not raised: every outcome with
\* success = false carries an error text, whether the client was not
\* connected, the tool unknown, the backend call in error or timed out; and
\* a non-critical spec naming an unknown tool fails with "not available"
\* while the spec after it is still attempted.
C20_FailuresRecordedNotRaised ==
    /\ raised \notin {"execute_tools", "call_tool"}
    /\ \A k \in 1..Len(PassOutcomes) :
          ~PassOutcomes[k].success => HasErrorText(PassOutcomes[k])
    /\ pc # "execute_loop" =>
          \A k \in 1..Len(LatestPass) :
              (/\ UnknownToolAt(k)
               /\ k < Len(selected_tools)
               /\ "tool" \in DOMAIN tools_to_execute(selected_tools)[k + 1])
              => /\ ~LatestPass[k].success
                 /\ Len(LatestPass) >= k + 1

\* a result of the filesystem tool reports success in its success field
ReportsSuccess(result) == "success" \in DOMAIN result /\ result.success

\* a result of the filesystem tool reports failure in its success field
ReportsFailure(result) == "success" \in DOMAIN result /\ ~result.success

\* call number k of the trace is the given operation on the given path
IsCall(k, operation, path) ==
    /\ k \in 1..Len(fs_trace)
    /\ fs_trace[k].input.operation = operation
    /\ fs_trace[k].input.path = path

\* C21: filesystem round trip: a write of a content to a path reports
\* success in the result's success field; a read of the same path right
\* after it reports success and returns exactly the written content; a list
\* of the parent directory after that reports success with count >= 1; a
\* delete of the path after that reports success.
C21_FilesystemRoundTrip ==
    \A k \in 1..Len(fs_trace) :
        LET path == fs_trace[k].input.path
            content == fs_trace[k].input.content
        IN  (fs_trace[k].input.operation = "write" /\ content # None) =>
              /\ ReportsSuccess(fs_trace[k].result)
              /\ IsCall(k + 1, "read", path) =>
                    /\ ReportsSuccess(fs_trace[k + 1].result)
                    /\ Get(fs_trace[k + 1].result, "content", None) = content
                    /\ (Ancestors(path) # <<>>
                        /\ IsCall(k + 2, "list", Last(Ancestors(path)))) =>
                          /\ ReportsSuccess(fs_trace[k + 2].result)
                          /\ Get(fs_trace[k + 2].result, "count", 0) >= 1
                          /\ IsCall(k + 3, "delete", path) =>
                                ReportsSuccess(fs_trace[k + 3].result)

\* this step is a read of a path that holds nothing
ReadsMissingPath ==
    /\ Len(fs_trace') = Len(fs_trace) + 1
    /\ Last(fs_trace').input.operation = "read"
    /\ files[Last(fs_trace').input.path] = Absent

\* C22: a read of a path that does not exist returns a result whose success
\* field is present and false and which has an error field, and it leaves
\* the stored files as they were.
C22_ReadMissingPath ==
    [][ReadsMissingPath =>
          /\ ReportsFailure(Last(fs_trace').result)
          /\ "error" \in DOMAIN Last(fs_trace').result
          /\ files' = files]_vars

\* some recorded outcome failed and the spec that produced it is critical
CriticalOutcomeFailed ==
    \E k \in 1..Len(tool_results) :
        /\ ~tool_results[k].success
        /\ Get(SpecOf(tool_results[k]), "critical", FALSE)

\* the routing function is evaluated below the budget on a non-empty
\* outcome list and names a node
RoutesOnOutcomes ==
    /\ pc = "route"
    /\ step_count < max_steps
    /\ tool_results # <<>>
    /\ pc' \in Nodes

\* C23: after an Execute pass below the step budget with a non-empty outcome
\* list, the next node is error_recovery if and only if some failed outcome
\* was produced by a spec that is itself critical: the failure of a
\* non-critical spec does not route to error_recovery, also when another
\* spec of the plan names the same tool and is critical.
C23_RecoverIffCriticalSpecFailed ==
    [][RoutesOnOutcomes => (pc' = "error_recovery" <=> CriticalOutcomeFailed)]_vars

\* this step enters a node
EntersNode == pc' \in Nodes /\ pc' # pc

\* C24: the step counter never decreases, and whenever a node
\* (analyze_request, execute_tools, error_recovery, generate_response) is
\* entered it is strictly below the step budget, for every budget >= 1.
C24_CounterBelowBudgetOnEntry ==
    [][/\ step_count' >= step_count
       /\ EntersNode => step_count' < max_steps]_vars

\* the routing function is evaluated with the counter at or above the budget
RoutesAtBudget == pc = "route" /\ step_count >= max_steps /\ pc' # pc

\* C25: whenever the routing function is evaluated with step counter >=
\* step budget the next node is generate_response, not execute_tools or
\* error_recovery, whatever the plan and the outcomes are.
C25_BudgetForcesRespond ==
    [][RoutesAtBudget => pc' = "generate_response"]_vars

\* the budget forced generate_response although the plan was never run or a
\* critical spec had failed
C25_Witness ==
    /\ pc = "generate_response"
    /\ step_count >= max_steps
    /\ selected_tools # <<>>
    /\ \/ tool_results = <<>>
       \/ CriticalOutcomeFailed
    /\ ~Recovered

\* this step is the return of a node: the node appended its message
NodeReturned == Len(messages') = Len(messages) + 1 /\ pc # "idle"

\* C26: every execution of a node that returns increases the step counter
\* by exactly one, on its normal path and on each error-handling path; no
\* other step changes the counter.
C26_OneStepPerNode ==
    [][/\ NodeReturned => step_count' = step_count + 1
       /\ (~NodeReturned /\ pc # "idle") => step_count' = step_count]_vars

\* nodes returned on error-handling paths: the connection warning of
\* analyze_request, the outer handler of execute_tools, error_recovery
C26_Witness ==
    /\ pc = "returned"
    /\ raised = "none"
    /\ \E k \in 1..Len(messages) : messages[k] = "execution_error"
    /\ step_count = Len(messages) - 1
    /\ step_count > max_steps

\* a list of outcomes holds the failed outcome of a critical spec
HoldsCriticalFailure(results) ==
    \E k \in 1..Len(results) :
        ~results[k].success /\ Get(SpecOf(results[k]), "critical", FALSE)

\* C27: in every reachable state the outcome list (the one being built by
\* execute_tools as well as the recorded one) is no longer than the plan,
\* and once it holds the failed outcome of a critical spec no outcome is
\* appended to it for the rest of the run.
C27_OutcomesBoundedAndStopped ==
    /\ [](/\ Len(tool_results) <= Len(selected_tools)
          /\ Len(execution_results) <= Len(selected_tools))
    /\ [][/\ HoldsCriticalFailure(tool_results) => tool_results' = tool_results
          /\ HoldsCriticalFailure(execution_results) =>
                execution_results' = execution_results]_vars

\* a run that stopped at a failed critical spec before the end of its plan
\* and went on to its return
C27_Witness ==
    /\ pc = "returned"
    /\ HoldsCriticalFailure(tool_results)
    /\ Len(tool_results) < Len(selected_tools)

\* the message a node appends when it returns, by node
MessagesOf(node) ==
    CASE node = "analyze_request" ->
            {"warning_not_connected", "analysis_error", "analysis_complete"}
      [] node = "execute_tools" ->
            {"no_tools", "execution_complete", "execution_error"}
      [] node = "error_recovery" -> {"recovery"}
      [] node = "generate_response" -> {"response"}

\* the node that appended message number k of the conversation (k >= 2)
NodeAt(k) == CHOOSE node \in Nodes : messages[k] \in MessagesOf(node)

\* how many messages of the conversation a node appended
TimesRun(node) ==
    Cardinality({k \in 2..Len(messages) : NodeAt(k) = node})

\* how often generate_response was entered: its returns, and the execution
\* that raised
RespondEntered ==
    TimesRun("generate_response") + IF raised = "generate_response" THEN 1 ELSE 0

\* C28: the nodes of a run occur in an order the state graph allows:
\* analyze_request exactly once and first; then execute_tools one or more
\* times; error_recovery at most once and only right after an
\* execute_tools; generate_response exactly once, as the last node, entered
\* only from execute_tools or error_recovery.
C28_NodeOrder ==
    /\ \A k \in 2..Len(messages) :
          /\ NodeAt(k) = "analyze_request" <=> k = 2
          /\ NodeAt(k) = "execute_tools" =>
                NodeAt(k - 1) \in {"analyze_request", "execute_tools"}
          /\ NodeAt(k) = "error_recovery" => NodeAt(k - 1) = "execute_tools"
          /\ NodeAt(k) = "generate_response" =>
                /\ NodeAt(k - 1) \in {"execute_tools", "error_recovery"}
                /\ k = Len(messages)
    /\ TimesRun("error_recovery") <= 1
    /\ pc = "returned" =>
          /\ TimesRun("analyze_request") = 1
          /\ TimesRun("execute_tools") >= 1
          /\ RespondEntered = 1
          /\ \/ NodeAt(Len(messages)) = "generate_response"
             \/ raised = "generate_response"

\* C29: the plan is written once, by analyze_request: execute_tools (its
\* sort included), error_recovery, generate_response, the routing function
\* and the return of process_request leave it unchanged: same specs, same
\* order, same flags.
C29_PlanImmutableAfterAnalyze ==
    [][pc \notin {"idle", "analyze_request"} => selected_tools' = selected_tools]_vars

\* a run whose plan was not in execution order, after execute_tools ran it
C29_Witness ==
    /\ pc = "returned"
    /\ tool_results # <<>>
    /\ tools_to_execute(selected_tools) # selected_tools
    /\ OrderedBySequence(tool_results)

\* the node that is running at a position of the run
RunningNode == IF pc = "execute_loop" THEN "execute_tools" ELSE pc

\* C30: the conversation is append-only: a step leaves it alone or adds one
\* message at its end, keeping the existing messages and their order; the
\* first message is the user's request; and the message a step adds is the
\* one of the node that ran in that step, so the messages are in the order
\* in which the nodes ran.
C30_ConversationAppendOnly ==
    /\ [](messages # <<>> => messages[1] \in Requests)
    /\ [][\/ messages' = messages
          \/ /\ Len(messages') = Len(messages) + 1
             /\ SubSeq(messages', 1, Len(messages)) = messages
             /\ \/ pc = "idle"
                \/ /\ RunningNode \in Nodes
                   /\ Last(messages') \in MessagesOf(RunningNode)]_vars

\* a run through all four nodes, with its five messages in order
C30_Witness ==
    /\ pc = "returned"
    /\ Len(messages) = 5
    /\ messages[1] \in Requests
    /\ messages[2] = "analysis_complete"
    /\ messages[3] = "execution_complete"
    /\ messages[4] = "recovery"
    /\ messages[5] = "response"

\* the text holds a JSON object: as is, between prose, or after a marker
HoldsObject(text) == text.form # "not_str" /\ text.value.type = "object"

\* the dict has the two fields of the default plan
IsDefaultPlan(d) ==
    /\ d.selected_tools = <<>>
    /\ d.task_analysis = "Could not parse analysis response"

\* d is the object o with exactly its missing required fields defaulted
MissingFieldsDefaulted(d, o) ==
    /\ DOMAIN d = DOMAIN o \cup {"selected_tools", "task_analysis"}
    /\ \A k \in DOMAIN o : d[k] = o[k]
    /\ "selected_tools" \notin DOMAIN o => d.selected_tools = <<>>
    /\ "task_analysis" \notin DOMAIN o =>
            d.task_analysis = "Task analysis not provided"

\* C31: _parse_json_response returns on every completion text; for a text
\* that holds no JSON object (words, a number, an array, no str at all) it
\* returns the default plan, an empty tool list with the summary "Could not
\* parse analysis response"; for a text that holds a JSON object it returns
\* that object with exactly its missing tool list and summary defaulted.
C31_ParseFallback ==
    parsed # NotParsed =>
        IF HoldsObject(response_text)
        THEN MissingFieldsDefaulted(parsed, response_text.value.object)
        ELSE IsDefaultPlan(parsed)

\* the step generate_response takes on an empty outcome list
DirectRespondStep ==
    LET call == Last(llm_calls')
    IN  /\ Len(llm_calls') = Len(llm_calls) + 1
        /\ call.node = "generate_response"
        /\ call.prompt = [request |-> messages[1]]
        /\ call.outcome = "raise" => final_response' = clarification(messages[1])
        /\ Len(messages') = Len(messages) + 1
        /\ step_count' = step_count + 1
        /\ pc' = "END"

\* C32: generate_response on an empty outcome list calls the completion
\* service with a prompt holding the original request and no outcomes; if the
\* call fails the final answer is the clarification text quoting the request;
\* the node adds one message and one step, and the run returns that answer
\* with success = true.
C32_DirectResponse ==
    /\ [][(pc = "generate_response" /\ tool_results = <<>>) => DirectRespondStep]_vars
    /\ [](pc = "returned" /\ raised = "none" /\ tool_results = <<>>
          /\ RespondCompletionFailed =>
            /\ ret.success
            /\ ret.final_response = clarification(ret.messages[1])
            /\ Last(ret.messages) = "response"
            /\ ret.steps_taken = step_count)

C32_Witness ==
    /\ pc = "returned"
    /\ tool_results = <<>>
    /\ RespondCompletionFailed
    /\ Last(llm_calls).prompt = [request |-> "read notes.txt"]
    /\ ret.success
    /\ ret.final_response = clarification("read notes.txt")
    /\ ret.steps_taken = 3

\* the step execute_tools takes on an empty plan
EmptyPlanStep ==
    /\ invoked' = invoked
    /\ tool_results' = tool_results
    /\ tool_results' = <<>>
    /\ messages' = Append(messages, "no_tools")
    /\ pc' = "route"

\* C33: on an empty plan execute_tools calls no tool, records no outcome and
\* appends one message, and the routing function then selects
\* generate_response, never execute_tools or error_recovery.
C33_EmptyPlanResponds ==
    /\ [][(pc = "execute_tools" /\ selected_tools = <<>>) => EmptyPlanStep]_vars
    /\ [][(pc = "route" /\ selected_tools = <<>>) => pc' = "generate_response"]_vars

C33_Witness ==
    /\ pc = "generate_response"
    /\ selected_tools = <<>>
    /\ Last(messages) = "no_tools"
    /\ invoked = <<>>
    /\ tool_results = <<>>
    /\ step_count < max_steps

\* C34: a refresh of the tool directory is atomic for its readers: whoever
\* reads the directory finds exactly the tools of the latest tools_response
\* a refresh has started to store, never a part of them; and when the loop
\* of a refresh is over, the directory holds exactly the tools that
\* discovery returned.
C34_AtomicRefresh ==
    /\ [](observed.directory = Names(observed.refreshed))
    /\ [][\A p \in Callers :
            (discovery[p].at = "filling" /\ discovery'[p].at = "closing") =>
                available_tools' = Names(discovery[p].tools)]_vars

\* a reader saw both tools of a refresh that replaced a one-tool directory
\* while the other caller was inside discover_tools
C34_Witness ==
    /\ observed.directory = {"filesystem", "database_query"}
    /\ observed.refreshed = <<"filesystem", "database_query">>
    /\ \E p \in Callers : discovery[p].at = "listing"
    /\ available_tools = {"database_query"}

\* call number k of an Execute pass was for a critical spec and failed
BrokeAt(calls, k) ==
    /\ ~calls[k].success
    /\ Get(tools_to_execute(selected_tools)[k], "critical", FALSE)

\* C35: in an Execute pass the delay follows the outcome of a call exactly
\* when its spec is not the last of the sorted plan and the pass was not
\* stopped by a critical failure at that spec; and the calls do not overlap:
\* whenever the loop is about to make a call, every call made before in the
\* pass has its outcome in the list.
C35_DelayBetweenCalls ==
    /\ \A p \in 1..Len(invoked) : \A k \in 1..Len(invoked[p]) :
          invoked[p][k].delayed <=>
              /\ k < Len(selected_tools)
              /\ ~BrokeAt(invoked[p], k)
    /\ pc = "execute_loop" =>
          /\ Len(Last(invoked)) = Len(execution_results)
          /\ i = Len(execution_results) + 1

\* a finished pass of two calls: a delay after the first, none after the
\* second
C35_Witness ==
    /\ pc = "route"
    /\ Len(invoked) = 1
    /\ Len(invoked[1]) = 2
    /\ invoked[1][1].delayed
    /\ ~invoked[1][1].success
    /\ ~invoked[1][2].delayed
    /\ Len(tool_results) = 2

\* error_recovery has just returned: its report is the final answer so far
RecoveryReported == pc = "generate_response" /\ Last(messages) = "recovery"

\* how many of the first k outcomes have the success flag of outcome k
RankAmongAlike(results, k) ==
    Cardinality({j \in 1..k : results[j].success = results[k].success})

\* the line of the report for outcome k: among the successes in their order
\* if it succeeded, else among the failures with its error text or the
\* placeholder
ListedOnce(report, results, k) ==
    LET r == results[k]
        n == RankAmongAlike(results, k)
    IN  IF r.success
        THEN n <= Len(report.succ) /\ report.succ[n][1] = r.tool_name
        ELSE /\ n <= Len(report.fail)
             /\ report.fail[n][1] = r.tool_name
             /\ report.fail[n][2] # ""
             /\ report.fail[n][2] # None
             /\ report.fail[n][2] \in {r.error, "Unknown error"}
             /\ r.error \notin {None, ""} => report.fail[n][2] = r.error

\* C36: the report of error_recovery partitions the outcome list: every
\* outcome has its own line, under the successes if it succeeded, else under
\* the failures with its error text or a placeholder when it has none, and
\* the two lists together have as many lines as there are outcomes.
C36_ReportPartitionsOutcomes ==
    RecoveryReported =>
        /\ \A k \in 1..Len(tool_results) :
              ListedOnce(final_response, tool_results, k)
        /\ Len(final_response.succ) + Len(final_response.fail) = Len(tool_results)

\* a report with one success and one failure that carries no error text
C36_Witness ==
    /\ RecoveryReported
    /\ Len(final_response.succ) = 1
    /\ final_response.fail = << <<"filesystem", "Unknown error">> >>
    /\ tool_results[1].success
    /\ tool_results[2].error = ""

\* the plan is not empty and each of its specs carries a tool name and
\* parameters
EverySpecNamesTool ==
    /\ selected_tools # <<>>
    /\ \A k \in 1..Len(selected_tools) :
          {"tool", "parameters"} \subseteq DOMAIN selected_tools[k]

\* C37: when every spec of a non-empty plan carries a tool name and
\* parameters, execute_tools runs exactly once in the run, for every step
\* budget: it never returns a second time, and a run that left the workflow
\* has been through it once.
C37_ExecuteEnteredOnce ==
    EverySpecNamesTool =>
        /\ TimesRun("execute_tools") <= 1
        /\ pc \in {"END", "returned"} => TimesRun("execute_tools") = 1

\* C38: from the initial state of a run on, the conversation has one message
\* more than the step counter counts: the request, and one message for each
\* node execution that returned, on its normal and on its error-handling
\* paths alike.
C38_ConversationTracksSteps ==
    pc # "idle" => Len(messages) = step_count + 1

\* a run through all four nodes, with the pass of execute_tools ended by its
\* outer handler once before
C38_Witness ==
    /\ pc = "END"
    /\ step_count = 4
    /\ Len(messages) = 5
    /\ messages[3] = "execution_error"
    /\ messages[2] = "analysis_complete"

\* C39: MCPClient.connect sets the connected flag, and returns true, only if
\* tool discovery succeeded: a client whose flag is set holds the tools a
\* discovery returned, and a run in which no discovery succeeded is told so
\* by connect and goes on without tools.
C39_ConnectedOnlyAfterDiscovery ==
    /\ connected => available_tools = Discovered
    /\ (Len(messages) >= 2 /\ available_tools = {}) => ConnectFailed

\* C40: when process_request has returned, the client it connected is
\* disconnected, also when the workflow raised and the record says
\* success = false.
C40_DisconnectedOnReturn ==
    pc = "returned" => ~connected

=============================================================================
